---- MODULE Spec2Model ----
(***************************************************************************)
(* Model of the Python iterator protocol adapter (src/class/iter.rs).      *)
(*                                                                         *)
(* The host calls a type's tp_iter / tp_iternext slot with an opaque self  *)
(* handle.  The slot function binds a Receiver (a PyRef / PyRefMut borrow  *)
(* of the PyCell), runs the user's __iter__ / __next__, converts the       *)
(* result to the ABI shape (pointer, or NULL with a pending error) and     *)
(* returns it.  User logic may call back into the host, so calls nest.     *)
(***************************************************************************)
EXTENDS Integers, Sequences, FiniteSets, TLC

\* ---------------------------------------------------------------- bounds
MaxLimit == 5       \* largest limit of the counter iterator (5 in the doc example)
MaxDepth == 2       \* deepest nesting of slot calls (reentrancy)
ExtraCalls == 2     \* host calls made on one object after it is exhausted

MaxCalls == MaxLimit + ExtraCalls

\* --------------------------------------------------------------- objects
Objs == {1, 2}            \* instances of the #[pyclass] Iter
Foreign == 0              \* a host object of some other type
Handles == Objs \cup {Foreign}

ob_type(h) == IF h \in Objs THEN "Iter" ELSE "Other"

\* ------------------------------------------------------- values and errors
\* Rust values returned by user logic.
Usize(n) == [rust |-> "usize", int |-> n, str |-> ""]
Str(s) == [rust |-> "str", int |-> 0, str |-> s]
Unit == [rust |-> "unit", int |-> 0, str |-> ""]
PyObjectNone == [rust |-> "PyObject", int |-> 0, str |-> ""]     \* py.None() held as a PyObject

\* Host objects.
PyLong(n) == [py |-> "int", int |-> n, str |-> ""]
PyString(s) == [py |-> "str", int |-> 0, str |-> s]
PyNone == [py |-> "NoneType", int |-> 0, str |-> ""]
PySelf(o) == [py |-> "Iter", int |-> o, str |-> ""]

\* IntoPy<PyObject>: usize -> int, &str -> str, () -> None, None -> None.
into_py(x) ==
    IF x.rust = "usize" THEN PyLong(x.int)
    ELSE IF x.rust = "str" THEN PyString(x.str)
    ELSE PyNone

\* Raw *mut ffi::PyObject.
NULL == [null |-> TRUE, obj |-> PyNone]
into_ptr(o) == [null |-> FALSE, obj |-> o]

\* PyErr: an exception type with its constructor arguments.
NoErr == [kind |-> "none", args |-> <<>>]
new_err(kind, args) == [kind |-> kind, args |-> args]

\* PyResult<*mut ffi::PyObject> and PyResult<PyIterNextOutput>.
Ok(v) == [ok |-> TRUE, val |-> v, err |-> NoErr]
Err(e) == [ok |-> FALSE, val |-> NULL, err |-> e]

\* enum IterNextOutput<T, U> { Yield(T), Return(U) }, Option<T>, and the
\* other ways user logic ends.
Yield(v) == [tag |-> "Yield", val |-> v]
Return(v) == [tag |-> "Return", val |-> v]
Some(v) == [tag |-> "Some", val |-> v]
None == [tag |-> "None", val |-> Usize(0)]
NoOut == [tag |-> "none", val |-> Usize(0)]
Panic == [tag |-> "Panic", val |-> Usize(0)]
Slf == [tag |-> "Slf", val |-> Usize(0)]
UserErr(v) == [tag |-> "Err", val |-> v]

\* ----------------------------------------------------------- conversions
\* Variant: Return(None) raises StopIteration without an argument.
PyIterNextOutput_convert_NoArg(self) ==
    IF self.tag = "Yield"
    THEN Ok(into_ptr(self.val))
    ELSE IF self.val = PyNone
    THEN Err(new_err("StopIteration", <<>>))
    ELSE Err(new_err("StopIteration", <<self.val>>))

\* Variant: Return is reported as a NULL result with no error set.
PyIterNextOutput_convert_NullOk(self) ==
    IF self.tag = "Yield"
    THEN Ok(into_ptr(self.val))
    ELSE Ok(NULL)

\* impl IntoPyCallbackOutput<*mut ffi::PyObject> for PyIterNextOutput
PyIterNextOutput_convert(self) ==
    IF self.tag = "Yield"
    THEN Ok(into_ptr(self.val))
    ELSE Err(new_err("StopIteration", <<self.val>>))

\* Variant: both arms build Return.
IterNextOutput_convert_Swapped(self) ==
    IF self.tag = "Yield"
    THEN Ok(Return(into_py(self.val)))
    ELSE Ok(Return(into_py(self.val)))

\* impl IntoPyCallbackOutput<PyIterNextOutput> for IterNextOutput<T, U>
IterNextOutput_convert(self) ==
    IF self.tag = "Yield"
    THEN Ok(Yield(into_py(self.val)))
    ELSE Ok(Return(into_py(self.val)))

\* Variant: None is yielded as the host's None object.
Option_convert_YieldNone(self) ==
    IF self.tag = "Some"
    THEN Ok(Yield(into_py(self.val)))
    ELSE Ok(Yield(PyNone))

\* impl IntoPyCallbackOutput<PyIterNextOutput> for Option<T>
Option_convert(self) ==
    IF self.tag = "Some"
    THEN Ok(Yield(into_py(self.val)))
    ELSE Ok(Return(PyNone))

\* PyResult<T>::convert for a user operation that returned Err(e): the error
\* is passed through.
UserError == new_err("ValueError", <<PyString("user")>>)

\* ------------------------------------------------------------------ state
VARIABLES
    class,      \* the #[pyclass]: protocols declared and implemented, types, limit
    count,      \* count[o]: field `count` of instance o
    flag,       \* flag[o]: borrow flag of o's PyCell (0 unused, -1 mutable, n>0 shared)
    stack,      \* slot calls in progress, innermost last
    pending,    \* the host's pending-error indicator
    calls       \* calls[o]: next(o) calls made so far by a host that counts them

vars == <<class, count, flag, stack, pending, calls>>

Protocols == {"PyIterIterProtocol", "PyIterNextProtocol"}
ResultTypes == {"Option<usize>", "IterNextOutput<usize, &str>", "IterNextOutput<usize, ()>"}
Receivers == {"PyRef", "PyRefMut"}

\* Variant: the slot is produced for every type.
get_iter_Always(declared) ==
    {[slot |-> "Py_tp_iter", pfunc |-> "__iter__"]}

\* PyIterSlots::get_iter: exists only where Self: PyIterIterProtocol.
get_iter(declared) ==
    IF "PyIterIterProtocol" \in declared
    THEN {[slot |-> "Py_tp_iter", pfunc |-> "__iter__"]}
    ELSE {}

\* PyIterSlots::get_iternext: exists only where Self: PyIterNextProtocol.
get_iternext(declared) ==
    IF "PyIterNextProtocol" \in declared
    THEN {[slot |-> "Py_tp_iternext", pfunc |-> "__next__"]}
    ELSE {}

\* The slot table registered for the type.
SlotTable == get_iter(class.declared) \cup get_iternext(class.declared)

ProtocolOf(pfunc) ==
    IF pfunc = "__iter__" THEN "PyIterIterProtocol" ELSE "PyIterNextProtocol"

\* type Receiver of each protocol.
ReceiverOf(pfunc) ==
    IF pfunc = "__iter__" THEN class.iterRecv ELSE "PyRefMut"

\* ----------------------------------------------------------------- frames
NoConv == [ok |-> FALSE, val |-> NULL, err |-> NoErr]

NewFrame(h, e) ==
    [self |-> h, slot |-> e.slot, pfunc |-> e.pfunc, pc |-> "Entered",
     window |-> "none", path |-> "running", out |-> NoOut,
     conv |-> NoConv, res |-> NULL]

Depth == Len(stack)
Top == stack[Depth]
SetTop(f) == [stack EXCEPT ![Depth] = f]

\* Releasing a PyRef / PyRefMut (Drop).
Release(f, w) ==
    IF w = "shared" THEN f - 1
    ELSE IF w = "exclusive" THEN 0
    ELSE f

Init ==
    /\ class \in {c \in [declared : SUBSET Protocols, implemented : SUBSET Protocols,
                          iterRecv : Receivers, result : ResultTypes,
                          limit : 1..MaxLimit] :
                    c.implemented \subseteq c.declared}
    /\ count = [o \in Objs |-> 0]
    /\ flag = [o \in Objs |-> 0]
    /\ stack = <<>>
    /\ pending = NoErr
    /\ calls = [o \in Objs |-> 0]

\* ------------------------------------------------------------ the host calls
\* The host calls a slot of the registered table on a handle.
HostCall(h, e) ==
    /\ Depth = 0
    /\ e \in SlotTable
    /\ pending = NoErr
    /\ stack' = <<NewFrame(h, e)>>
    /\ UNCHANGED <<class, count, flag, pending, calls>>

\* A host that only advances iterators, one call after the other, and counts
\* its calls: the sequence next(o), next(o), ...
SeqNext(o) ==
    /\ Depth = 0
    /\ pending = NoErr
    /\ calls[o] < MaxCalls
    /\ \E e \in get_iternext(class.declared) : stack' = <<NewFrame(o, e)>>
    /\ calls' = [calls EXCEPT ![o] = @ + 1]
    /\ UNCHANGED <<class, count, flag, pending>>

\* User logic holding its Receiver calls back into the host, which calls a slot.
Reenter(h, e) ==
    /\ Depth >= 1
    /\ Depth < MaxDepth
    /\ Top.pc = "Bound"
    /\ e \in SlotTable
    /\ stack' = Append(stack, NewFrame(h, e))
    /\ UNCHANGED <<class, count, flag, pending, calls>>

\* ------------------------------------------------------------ the trampoline
\* Variant: PyRefMut is handed out whatever the borrow flag says.
try_from_pycell_Unchecked(recv, h) ==
    IF ob_type(h) # "Iter"
    THEN [ok |-> FALSE, window |-> "none", flag |-> 0,
          err |-> new_err("TypeError", <<PyString("downcast")>>)]
    ELSE IF recv = "PyRef"
    THEN IF flag[h] # -1
         THEN [ok |-> TRUE, window |-> "shared", flag |-> flag[h] + 1, err |-> NoErr]
         ELSE [ok |-> FALSE, window |-> "none", flag |-> flag[h],
               err |-> new_err("RuntimeError", <<PyString("Already mutably borrowed")>>)]
    ELSE [ok |-> TRUE, window |-> "exclusive", flag |-> -1, err |-> NoErr]

\* TryFromPyCell::try_from_pycell for PyRef (try_borrow) and PyRefMut
\* (try_borrow_mut), after the type check of the handle.
try_from_pycell(recv, h) ==
    IF ob_type(h) # "Iter"
    THEN [ok |-> FALSE, window |-> "none", flag |-> 0,
          err |-> new_err("TypeError", <<PyString("downcast")>>)]
    ELSE IF recv = "PyRef"
    THEN IF flag[h] # -1
         THEN [ok |-> TRUE, window |-> "shared", flag |-> flag[h] + 1, err |-> NoErr]
         ELSE [ok |-> FALSE, window |-> "none", flag |-> flag[h],
               err |-> new_err("RuntimeError", <<PyString("Already mutably borrowed")>>)]
    ELSE IF flag[h] = 0
         THEN [ok |-> TRUE, window |-> "exclusive", flag |-> -1, err |-> NoErr]
         ELSE [ok |-> FALSE, window |-> "none", flag |-> flag[h],
               err |-> new_err("RuntimeError", <<PyString("Already borrowed")>>)]

\* Variant: a failed bind is reported as the end of the iteration.
Bind_AsExhausted ==
    /\ Depth >= 1
    /\ Top.pc = "Entered"
    /\ LET f == Top
           r == try_from_pycell(ReceiverOf(f.pfunc), f.self)
       IN  IF r.ok
           THEN /\ flag' = [flag EXCEPT ![f.self] = r.flag]
                /\ stack' = SetTop([f EXCEPT !.pc = "Bound", !.window = r.window])
                /\ pending' = pending
           ELSE /\ flag' = flag
                /\ stack' = SetTop([f EXCEPT !.pc = "Returned", !.path = "binderr",
                                              !.res = NULL])
                /\ pending' = new_err("StopIteration", <<PyNone>>)
    /\ UNCHANGED <<class, count, calls>>

\* Entered -> Bound, or Entered -> Returned with the bind error pending.
Bind ==
    /\ Depth >= 1
    /\ Top.pc = "Entered"
    /\ LET f == Top
           r == try_from_pycell(ReceiverOf(f.pfunc), f.self)
       IN  IF r.ok
           THEN /\ flag' = [flag EXCEPT ![f.self] = r.flag]
                /\ stack' = SetTop([f EXCEPT !.pc = "Bound", !.window = r.window])
                /\ pending' = pending
           ELSE /\ flag' = flag
                /\ stack' = SetTop([f EXCEPT !.pc = "Returned", !.path = "binderr",
                                              !.res = NULL])
                /\ pending' = r.err
    /\ UNCHANGED <<class, count, calls>>

\* ---------------------------------------------------------------- user logic
\* Variant: the comparison is <= instead of <.
Iter__next___OffByOne(c, limit, result) ==
    IF c <= limit
    THEN [count |-> c + 1,
          out |-> IF result = "Option<usize>" THEN Some(Usize(c + 1))
                  ELSE Yield(Usize(c + 1))]
    ELSE [count |-> c,
          out |-> IF result = "Option<usize>" THEN None
                  ELSE IF result = "IterNextOutput<usize, &str>" THEN Return(Str("Ended"))
                  ELSE Return(Unit)]

\* The doc example's __next__(mut slf: PyRefMut<Self>), for each Result type.
Iter__next__(c, limit, result) ==
    IF c < limit
    THEN [count |-> c + 1,
          out |-> IF result = "Option<usize>" THEN Some(Usize(c + 1))
                  ELSE Yield(Usize(c + 1))]
    ELSE [count |-> c,
          out |-> IF result = "Option<usize>" THEN None
                  ELSE IF result = "IterNextOutput<usize, &str>" THEN Return(Str("Ended"))
                  ELSE Return(Unit)]

\* Variant: slf is never dropped (the borrow flag stays set).
UserNext_Leak ==
    /\ Depth >= 1
    /\ Top.pc = "Bound"
    /\ Top.pfunc = "__next__"
    /\ "PyIterNextProtocol" \in class.implemented
    /\ LET f == Top
           r == Iter__next__(count[f.self], class.limit, class.result)
       IN  /\ count' = [count EXCEPT ![f.self] = r.count]
           /\ flag' = flag
           /\ stack' = SetTop([f EXCEPT !.pc = "UserLogicRan", !.window = "none",
                                         !.out = r.out])
    /\ UNCHANGED <<class, pending, calls>>

\* Bound -> UserLogicRan: __next__ runs and drops slf on return.
UserNext ==
    /\ Depth >= 1
    /\ Top.pc = "Bound"
    /\ Top.pfunc = "__next__"
    /\ "PyIterNextProtocol" \in class.implemented
    /\ LET f == Top
           r == Iter__next__(count[f.self], class.limit, class.result)
       IN  /\ count' = [count EXCEPT ![f.self] = r.count]
           /\ flag' = [flag EXCEPT ![f.self] = Release(flag[f.self], f.window)]
           /\ stack' = SetTop([f EXCEPT !.pc = "UserLogicRan", !.window = "none",
                                         !.out = r.out])
    /\ UNCHANGED <<class, pending, calls>>

\* Bound -> UserLogicRan: __iter__(slf) -> slf; the Receiver lives in the result.
UserIter ==
    /\ Depth >= 1
    /\ Top.pc = "Bound"
    /\ Top.pfunc = "__iter__"
    /\ "PyIterIterProtocol" \in class.implemented
    /\ stack' = SetTop([Top EXCEPT !.pc = "UserLogicRan", !.out = Slf])
    /\ UNCHANGED <<class, count, flag, pending, calls>>

\* Bound -> UserLogicRan: the user operation returns Err(e).
UserRaise ==
    /\ Depth >= 1
    /\ Top.pc = "Bound"
    /\ ProtocolOf(Top.pfunc) \in class.implemented
    /\ LET f == Top
       IN  /\ flag' = [flag EXCEPT ![f.self] = Release(flag[f.self], f.window)]
           /\ stack' = SetTop([f EXCEPT !.pc = "UserLogicRan", !.window = "none",
                                         !.out = UserErr(Usize(0))])
    /\ UNCHANGED <<class, count, pending, calls>>

\* The default trait methods: unimplemented!().
PyIterProtocol__iter__(slf) == Panic
\* Variant: the default __next__ ends the iteration instead of panicking.
PyIterProtocol__next___Stop(slf) == Return(Unit)

PyIterProtocol__next__(slf) == Panic

\* callback_body's handle_panic: an unwind caught at the trampoline becomes a
\* pending PanicException and a NULL result.
handle_panic(out) ==
    [res |-> NULL, err |-> new_err("PanicException", <<PyString("panic")>>)]

\* The end of an operation that was invoked with the Receiver of the top frame:
\* a panic unwinds (dropping the Receiver) up to the trampoline, which returns;
\* any other outcome goes on to conversion.
Ran(out) ==
    LET f == Top
    IN  /\ flag' = [flag EXCEPT ![f.self] = Release(flag[f.self], f.window)]
        /\ IF out.tag = "Panic"
           THEN /\ stack' = SetTop([f EXCEPT !.pc = "Returned", !.window = "none",
                                              !.path = "panic", !.out = out,
                                              !.res = handle_panic(out).res])
                /\ pending' = handle_panic(out).err
           ELSE /\ stack' = SetTop([f EXCEPT !.pc = "UserLogicRan", !.window = "none",
                                              !.out = out])
                /\ pending' = pending

\* Bound -> Returned: the user operation panics.
UserPanic ==
    /\ Depth >= 1
    /\ Top.pc = "Bound"
    /\ ProtocolOf(Top.pfunc) \in class.implemented
    /\ Ran(Panic)
    /\ UNCHANGED <<class, count, calls>>

\* Bound -> Returned: the protocol is declared but the method is not
\* implemented, so the slot runs the default method.
DefaultMethod ==
    /\ Depth >= 1
    /\ Top.pc = "Bound"
    /\ ProtocolOf(Top.pfunc) \notin class.implemented
    /\ Ran(IF Top.pfunc = "__iter__" THEN PyIterProtocol__iter__(Top.self)
                                     ELSE PyIterProtocol__next__(Top.self))
    /\ UNCHANGED <<class, count, calls>>

\* The two conversion steps of a slot's result, to PyResult<*mut ffi::PyObject>.
ConvertOut(f) ==
    IF f.out.tag = "Err" THEN Err(UserError)
    ELSE IF f.pfunc = "__iter__" THEN Ok(into_ptr(PySelf(f.self)))
    ELSE LET r == IF f.out.tag \in {"Some", "None"}
                  THEN Option_convert(f.out)
                  ELSE IterNextOutput_convert(f.out)
         IN  IF r.ok THEN PyIterNextOutput_convert(r.val) ELSE Err(r.err)

\* UserLogicRan -> Converted; a Receiver held by the result is dropped.
Convert ==
    /\ Depth >= 1
    /\ Top.pc = "UserLogicRan"
    /\ LET f == Top
       IN  /\ flag' = [flag EXCEPT ![f.self] = Release(flag[f.self], f.window)]
           /\ stack' = SetTop([f EXCEPT !.pc = "Converted", !.window = "none",
                                         !.conv = ConvertOut(f)])
    /\ UNCHANGED <<class, count, pending, calls>>

\* Converted -> Returned: Ok(ptr) is returned; Err(e) is restored as the
\* pending error and NULL is returned.
Returning ==
    /\ Depth >= 1
    /\ Top.pc = "Converted"
    /\ LET f == Top
       IN  IF f.conv.ok
           THEN /\ stack' = SetTop([f EXCEPT !.pc = "Returned", !.path = "returned",
                                              !.res = f.conv.val])
                /\ pending' = pending
           ELSE /\ stack' = SetTop([f EXCEPT !.pc = "Returned", !.path = "returned",
                                              !.res = NULL])
                /\ pending' = f.conv.err
    /\ UNCHANGED <<class, count, flag, calls>>

\* The caller takes the result: the host handles the error of a top-level
\* call, user logic fetches the error of a nested one.
HostTake ==
    /\ Depth >= 1
    /\ Top.pc = "Returned"
    /\ stack' = SubSeq(stack, 1, Depth - 1)
    /\ pending' = NoErr
    /\ UNCHANGED <<class, count, flag, calls>>

Next ==
    \/ \E h \in Handles, e \in SlotTable : HostCall(h, e)
    \/ \E h \in Handles, e \in SlotTable : Reenter(h, e)
    \/ Bind
    \/ UserNext
    \/ UserIter
    \/ UserRaise
    \/ UserPanic
    \/ DefaultMethod
    \/ Convert
    \/ Returning
    \/ HostTake

Spec == Init /\ [][Next]_vars

\* The doc example alone: a class with only __next__, advanced sequentially.
InitCounter ==
    /\ Init
    /\ class.declared = {"PyIterNextProtocol"}
    /\ class.implemented = {"PyIterNextProtocol"}
    /\ class.iterRecv = "PyRef"

NextCounter ==
    \/ \E o \in Objs : SeqNext(o)
    \/ Bind
    \/ UserNext
    \/ Convert
    \/ Returning
    \/ HostTake

SpecCounter == InitCounter /\ [][NextCounter]_vars

\* ================================================================ properties
AtReturned == Depth >= 1 /\ Top.pc = "Returned"

\* What the host observes of a PyResult<*mut ffi::PyObject> handed back by a
\* slot: the returned pointer and the pending error.
Observed(r) == IF r.ok THEN <<r.val, NoErr>> ELSE <<NULL, r.err>>

\* C1: a call whose user logic returned IterNextOutput::Yield(v), v a usize,
\* returns a non-null pointer to the host int v and leaves no error pending.
C1_YieldToHost ==
    (AtReturned /\ Top.out.tag = "Yield") =>
        /\ Top.res = [null |-> FALSE, obj |-> PyLong(Top.out.val.int)]
        /\ pending = NoErr

C1_Witness ==
    AtReturned /\ Top.out.tag = "Yield" /\ Top.out.val.int = 2

\* C2: a call whose user logic returned IterNextOutput::Return(p) returns NULL
\* with StopIteration pending, built with the converted payload as its only
\* argument; a () payload gives the argument None, not an empty argument list.
C2_ReturnToHost ==
    (AtReturned /\ Top.out.tag = "Return") =>
        /\ Top.res = NULL
        /\ pending.kind = "StopIteration"
        /\ Len(pending.args) = 1
        /\ Top.out.val = Str("Ended") => pending.args[1] = PyString("Ended")
        /\ Top.out.val = Unit => pending.args[1] = PyNone

C2_Witness ==
    AtReturned /\ Top.out = Return(Unit) /\ pending.args = <<PyNone>>

\* C3: a call whose user logic returned Some(v) hands the host what the two
\* conversion steps give for Yield(v), and one that returned None what they
\* give for Return(py.None()).
C3_OptionEquivalence ==
    (AtReturned /\ Top.out.tag \in {"Some", "None"}) =>
        LET explicit == IF Top.out.tag = "Some" THEN Yield(Top.out.val)
                        ELSE Return(PyObjectNone)
        IN  <<Top.res, pending>> =
                Observed(PyIterNextOutput_convert(IterNextOutput_convert(explicit).val))

C3_Witness ==
    AtReturned /\ Top.out.tag = "None" /\ Top.res = NULL
        /\ pending = new_err("StopIteration", <<PyNone>>)

\* A bind of the top frame's Receiver that meets a conflicting window.
Conflict(f) ==
    \E i \in 1..(Depth - 1) :
        /\ stack[i].self = f.self
        /\ \/ stack[i].window = "exclusive"
           \/ stack[i].window = "shared" /\ ReceiverOf(f.pfunc) = "PyRefMut"

C4_NoConflictingWindows ==
    \A i, j \in 1..Depth :
        (i < j /\ stack[i].self = stack[j].self
               /\ stack[i].window # "none" /\ stack[j].window # "none")
            => (stack[i].window = "shared" /\ stack[j].window = "shared")

C4_BindStep ==
    (Depth >= 1 /\ Top.pc = "Entered" /\ Top.self \in Objs /\ Len(stack') = Depth) =>
        IF Conflict(Top)
        THEN /\ stack'[Depth].pc = "Returned"
             /\ stack'[Depth].window = "none"
             /\ pending'.kind = "RuntimeError"
             /\ flag' = flag
        ELSE /\ stack'[Depth].pc = "Bound"
             /\ stack'[Depth].window # "none"

\* C4: two conflicting windows (one of them exclusive) are never open on one
\* instance; a bind that meets a conflicting open window on its instance fails
\* with a RuntimeError pending and opens nothing, and a bind that meets none
\* (the earlier windows were released, or are shared like it) succeeds.
C4_MutualExclusion == [](C4_NoConflictingWindows) /\ [][C4_BindStep]_vars

C4_Witness ==
    /\ Depth = 2
    /\ stack[1].self = stack[2].self
    /\ stack[1].window = "exclusive"
    /\ stack[2].pc = "Returned"
    /\ stack[2].path = "binderr"

C5_Contained ==
    \A i \in 1..Depth :
        LET f == stack[i]
        IN  /\ f.out.tag = "Panic" =>
                /\ f.pc = "Returned"
                /\ f.res = NULL
                /\ f.window = "none"
                /\ i = Depth
                /\ pending.kind = "PanicException"
            /\ (ProtocolOf(f.pfunc) \notin class.implemented
                    /\ f.pc \notin {"Entered", "Bound"} /\ f.path # "binderr") =>
                f.out.tag = "Panic"

C5_NotResumed ==
    (AtReturned /\ Top.out.tag = "Panic") =>
        /\ Len(stack') = Depth - 1
        /\ count' = count

\* C5: a call whose operation panicked (the default unimplemented!() methods
\* always do) is in Returned with a NULL result and PanicException pending,
\* holds no window, and the only step after it is the caller taking the result.
C5_UnwindContainment == [](C5_Contained) /\ [][C5_NotResumed]_vars

C5_Witness ==
    /\ AtReturned
    /\ Top.pfunc = "__next__"
    /\ "PyIterNextProtocol" \notin class.implemented
    /\ Top.out.tag = "Panic"
    /\ pending.kind = "PanicException"

\* C6: the borrow flag of every instance is exactly the windows held by the
\* calls in progress; a call in Entered, Converted or Returned holds none, so
\* with no call in progress every flag is 0.
C6_NoLeakedWindow ==
    /\ \A i \in 1..Depth :
          stack[i].pc \in {"Entered", "Converted", "Returned"} => stack[i].window = "none"
    /\ \A o \in Objs :
          flag[o] = IF \E i \in 1..Depth : stack[i].self = o /\ stack[i].window = "exclusive"
                    THEN -1
                    ELSE Cardinality({i \in 1..Depth :
                                        stack[i].self = o /\ stack[i].window = "shared"})
    /\ Depth = 0 => \A o \in Objs : flag[o] = 0

C6_Witness ==
    /\ Depth = 0
    /\ \E o \in Objs : count[o] = 2
    /\ \A o \in Objs : flag[o] = 0

\* C7: every entry of the slot table, and every call in progress, belongs to
\* a protocol the type declared; a type declaring only PyIterNextProtocol has
\* no Py_tp_iter entry.
C7_UndeclaredAbsent ==
    /\ \A e \in SlotTable : ProtocolOf(e.pfunc) \in class.declared
    /\ class.declared = {"PyIterNextProtocol"} =>
          \A e \in SlotTable : e.slot # "Py_tp_iter"
    /\ \A i \in 1..Depth : ProtocolOf(stack[i].pfunc) \in class.declared

C7_Witness ==
    /\ class.declared = {"PyIterNextProtocol"}
    /\ SlotTable = {[slot |-> "Py_tp_iternext", pfunc |-> "__next__"]}
    /\ AtReturned
    /\ Top.pfunc = "__next__"

DocLimit == 5

C8_KthCall ==
    /\ \A o \in Objs : count[o] <= class.limit
    /\ AtReturned =>
          LET k == calls[Top.self]
              N == class.limit
          IN  IF k <= N
              THEN /\ Top.res = [null |-> FALSE, obj |-> PyLong(k)]
                   /\ pending = NoErr
                   /\ count[Top.self] = k
              ELSE /\ Top.res = NULL
                   /\ pending.kind = "StopIteration"
                   /\ class.result = "Option<usize>" => pending.args = <<PyNone>>
                   /\ count[Top.self] = N

C8_ExhaustedUnchanged ==
    \A o \in Objs : calls[o] > class.limit => count'[o] = count[o]

\* C8: for the counter with limit N advanced by sequential calls, the k-th
\* call on an instance returns the host int k for k <= N, and NULL with
\* StopIteration pending for every k > N (payload None for the Option form);
\* from the (N+1)-th call on the counter stays at N.
C8_CounterSequence == [](C8_KthCall) /\ [][C8_ExhaustedUnchanged]_vars

C8_Witness ==
    /\ AtReturned
    /\ class.limit = DocLimit
    /\ calls[Top.self] = DocLimit + 2
    /\ Top.res = NULL
    /\ pending.kind = "StopIteration"
    /\ count[Top.self] = DocLimit

\* C9: a call in Returned hands back either a non-null pointer with no error
\* pending or NULL with an error pending; for tp_iternext the pointer is
\* non-null exactly when the operation returned Yield (Some for an Option).
C9_ResultShape ==
    AtReturned =>
        /\ \/ ~Top.res.null /\ pending = NoErr
           \/ Top.res = NULL /\ pending # NoErr
        /\ Top.pfunc = "__next__" =>
              (~Top.res.null <=> Top.out.tag \in {"Yield", "Some"})

C9_Witness ==
    /\ AtReturned
    /\ Top.pfunc = "__next__"
    /\ Top.out.tag = "Return"
    /\ Top.res = NULL
    /\ pending.kind = "StopIteration"

\* The bind of the top frame cannot succeed: wrong type, or a window open on
\* the instance that conflicts with the Receiver to bind.
MustFail(f) ==
    \/ ob_type(f.self) # "Iter"
    \/ ReceiverOf(f.pfunc) = "PyRefMut" /\ flag[f.self] # 0
    \/ ReceiverOf(f.pfunc) = "PyRef" /\ flag[f.self] = -1

C10_FailedBindStep ==
    (Depth >= 1 /\ Top.pc = "Entered" /\ MustFail(Top) /\ Len(stack') = Depth) =>
        /\ stack'[Depth].pc = "Returned"
        /\ stack'[Depth].out = NoOut
        /\ stack'[Depth].res = NULL
        /\ pending'.kind \notin {"none", "StopIteration"}
        /\ count' = count
        /\ flag' = flag

C10_NoRetry ==
    (AtReturned /\ Top.path = "binderr") =>
        /\ Len(stack') = Depth - 1
        /\ count' = count
        /\ flag' = flag

\* C10: a bind that cannot succeed takes the call from Entered straight to
\* Returned with NULL and an error other than StopIteration pending, without
\* running the operation or changing any instance; the next step is the
\* caller taking the result, not another bind.
C10_BindFailure == [][C10_FailedBindStep]_vars /\ [][C10_NoRetry]_vars

C10_Witness ==
    /\ AtReturned
    /\ Top.self = Foreign
    /\ Top.path = "binderr"
    /\ pending.kind = "TypeError"

====
